---- MODULE Spec2Model ----
(***************************************************************************)
(* A model of proxi (src/src/index.ts): the URL-rewriting function         *)
(* rewrite(), the streaming rewriters TextRewriter and AttributeRewriter,  *)
(* the orchestrator proxy() and the request handler fetch().               *)
(*                                                                         *)
(* JavaScript strings are TLA+ strings; Len, SubSeq and \o act on them     *)
(* character by character, so every substitution below is computed on the *)
(* characters, as String.prototype.replaceAll and the regular expressions *)
(* of the source compute it.                                               *)
(***************************************************************************)
EXTENDS Integers, Sequences, FiniteSets, TLC

----------------------------------------------------------------------------
(* Strings *)

StartsWith(s, p) == Len(p) <= Len(s) /\ SubSeq(s, 1, Len(p)) = p

Drop(s, n) == SubSeq(s, n + 1, Len(s))

\* The least index j >= i at which p occurs in s, 0 when there is none.
RECURSIVE IndexOf(_, _, _)
IndexOf(s, p, i) ==
    IF i + Len(p) - 1 > Len(s) THEN 0
    ELSE IF SubSeq(s, i, i + Len(p) - 1) = p THEN i
    ELSE IndexOf(s, p, i + 1)

Includes(s, p) == IndexOf(s, p, 1) # 0

\* The greatest index j <= i at which p occurs in s, 0 when there is none.
RECURSIVE LastIndexOf(_, _, _)
LastIndexOf(s, p, i) ==
    IF i < 1 THEN 0
    ELSE IF i + Len(p) - 1 <= Len(s) /\ SubSeq(s, i, i + Len(p) - 1) = p THEN i
    ELSE LastIndexOf(s, p, i - 1)

\* String.prototype.replaceAll(p, r) for a non-empty string pattern p and a
\* replacement r without "$": the occurrences are found left to right and do
\* not overlap; the replacement is not scanned again.
RECURSIVE replaceAll(_, _, _)
replaceAll(s, p, r) ==
    LET i == IndexOf(s, p, 1)
    IN  IF i = 0 THEN s
        ELSE SubSeq(s, 1, i - 1) \o r \o replaceAll(Drop(s, i + Len(p) - 1), p, r)

\* The least index k >= j of s that holds no "/", Len(s) + 1 when all do.
RECURSIVE SkipSlashes(_, _)
SkipSlashes(s, j) ==
    IF j > Len(s) THEN j
    ELSE IF SubSeq(s, j, j) = "/" THEN SkipSlashes(s, j + 1)
    ELSE j

----------------------------------------------------------------------------
(* URLs: the platform's URL class, as far as the program uses it *)

NoURL == [ok |-> FALSE, protocol |-> "", hostname |-> "", port |-> "", pathname |-> ""]

DefaultPort(protocol) ==
    IF protocol = "https:" THEN "443" ELSE IF protocol = "http:" THEN "80" ELSE ""

\* A path without its last segment (the URL parser's "shorten").
Shorten(out) ==
    LET i == LastIndexOf(out, "/", Len(out))
    IN  IF i = 0 THEN "" ELSE SubSeq(out, 1, i - 1)

\* The URL parser's path state: rest is "/" segment "/" segment ...; a "."
\* segment is dropped, a ".." segment also drops the segment before it, and
\* either one, when it ends the path, leaves an empty last segment.
RECURSIVE NormalizePath(_, _)
NormalizePath(rest, out) ==
    LET next  == IndexOf(rest, "/", 2)
        atEnd == next = 0
        seg   == IF atEnd THEN Drop(rest, 1) ELSE SubSeq(rest, 2, next - 1)
        kept  == IF seg = ".." THEN Shorten(out) \o (IF atEnd THEN "/" ELSE "")
                 ELSE IF seg = "." THEN out \o (IF atEnd THEN "/" ELSE "")
                 ELSE out \o "/" \o seg
    IN  IF atEnd THEN kept ELSE NormalizePath(Drop(rest, next - 1), kept)

\* Characters the host parser refuses.
ForbiddenHostChars == {" ", "<", ">", "[", "]", "^", "|", "%", "\\"}

ValidHost(h) == h # "" /\ \A c \in ForbiddenHostChars : ~Includes(h, c)

\* new URL(s) for http: and https: strings: scheme, host, port and path, the
\* scheme's default port dropped, the path's dot segments resolved. Anything
\* else the program hands over (the empty string, an empty or malformed host)
\* throws: NoURL.
ParseURL(s) ==
    LET protocol == IF StartsWith(s, "https://") THEN "https:"
                    ELSE IF StartsWith(s, "http://") THEN "http:" ELSE ""
        rest     == Drop(s, Len(protocol) + 2)
        slash    == IndexOf(rest, "/", 1)
        auth     == IF slash = 0 THEN rest ELSE SubSeq(rest, 1, slash - 1)
        path     == IF slash = 0 THEN "/" ELSE Drop(rest, slash - 1)
        colon    == IndexOf(auth, ":", 1)
        hostname == IF colon = 0 THEN auth ELSE SubSeq(auth, 1, colon - 1)
        port     == IF colon = 0 THEN "" ELSE Drop(auth, colon)
    IN  IF protocol = "" \/ ~ValidHost(hostname) THEN NoURL
        ELSE [ok       |-> TRUE,
              protocol |-> protocol,
              hostname |-> hostname,
              port     |-> IF port = DefaultPort(protocol) THEN "" ELSE port,
              pathname |-> NormalizePath(path, "")]

\* URL.host
HostPort(u) == IF u.port # "" THEN u.hostname \o ":" \o u.port ELSE u.hostname

\* URL.origin
Origin(u) == u.protocol \o "//" \o HostPort(u)

\* URL.href
Href(u) == Origin(u) \o u.pathname

\* The protocol setter: the new scheme's default port is dropped.
SetProtocol(u, protocol) ==
    [u EXCEPT !.protocol = protocol,
              !.port = IF u.port = DefaultPort(protocol) THEN "" ELSE u.port]

----------------------------------------------------------------------------
(* rewrite(originURL, publicURL)(text) *)

\* rewrite() with the quote of its first rule lost: every "/" is anchored.
rewriteBareSlash(originURL, publicURL, text) ==
    LET t1 == replaceAll(text, "/", Origin(publicURL) \o "/")
        t5 == replaceAll(t1, Origin(originURL), Origin(publicURL))
    IN  replaceAll(t5, originURL.hostname, HostPort(publicURL))

rewrite(originURL, publicURL, text) ==
    LET originURLHostPort == IF originURL.port # ""
                             THEN originURL.hostname \o ":" \o originURL.port
                             ELSE originURL.hostname
        publicURLHostPort == IF publicURL.port # ""
                             THEN publicURL.hostname \o ":" \o publicURL.port
                             ELSE publicURL.hostname
        \* Relative URLs
        t1 == replaceAll(text, "'/", "'" \o Origin(publicURL) \o "/")
        t2 == replaceAll(t1, "\"/", "\"" \o Origin(publicURL) \o "/")
        t3 == replaceAll(t2, "</", "<" \o Origin(publicURL) \o "/")
        \* URLs with escaped "/" in JavaScript/JSON
        t4 == replaceAll(t3,
                  replaceAll(Origin(originURL), "/", "\\/"),
                  replaceAll(Origin(publicURL), "/", "\\/")
                      \o replaceAll(publicURL.pathname, "/", "\\/"))
        \* Full URL
        t5 == replaceAll(t4, Origin(originURL), Origin(publicURL))
        \* URL with // instead of full protocol https://
        t6 == replaceAll(t5,
                  "//" \o originURLHostPort \o originURL.pathname,
                  "//" \o publicURLHostPort \o publicURL.pathname \o "/")
        \* Hostname and port
    IN  replaceAll(t6, originURL.hostname, publicURLHostPort)

----------------------------------------------------------------------------
(* Headers: lower-cased name -> value, as the Headers class keeps them *)

NoHeaders == [n \in {} |-> ""]

HasHeader(h, n) == n \in DOMAIN h

SetHeader(h, n, v) == [k \in DOMAIN h \cup {n} |-> IF k = n THEN v ELSE h[k]]

DeleteHeader(h, n) == [k \in DOMAIN h \ {n} |-> h[k]]

\* Headers.get: the value, or null (here: absent |-> TRUE).
GetHeader(h, n) ==
    IF n \in DOMAIN h THEN [absent |-> FALSE, value |-> h[n]]
    ELSE [absent |-> TRUE, value |-> ""]

----------------------------------------------------------------------------
(* The request handler, fetch(request), up to its call of proxy() *)

NoResponse == [status |-> 0, headers |-> NoHeaders, body |-> ""]

\* The match with exactly two slashes after the scheme: /\/(https?:)\/\/(.*)/.
RECURSIVE ExtractUpstreamStrict(_, _)
ExtractUpstreamStrict(path, i) ==
    LET at     == Drop(path, i - 1)
        scheme == IF StartsWith(at, "/https://") THEN "https:"
                  ELSE IF StartsWith(at, "/http://") THEN "http:" ELSE ""
    IN  IF i > Len(path) THEN ""
        ELSE IF scheme # "" THEN scheme \o "//" \o Drop(path, i + Len(scheme) + 2)
        ELSE ExtractUpstreamStrict(path, i + 1)

\* path.match(/\/(https?:)\/+(.*)/): the leftmost "/", "http:" or "https:",
\* one or more "/", and the rest; then `${matchArray[1]}//${matchArray[2]}`,
\* or "" when nothing matches.
RECURSIVE ExtractUpstream(_, _)
ExtractUpstream(path, i) ==
    LET at     == Drop(path, i - 1)
        scheme == IF StartsWith(at, "/https:/") THEN "https:"
                  ELSE IF StartsWith(at, "/http:/") THEN "http:" ELSE ""
        rest   == SkipSlashes(path, i + 1 + Len(scheme))
    IN  IF i > Len(path) THEN ""
        ELSE IF scheme # "" THEN scheme \o "//" \o Drop(path, rest - 1)
        ELSE ExtractUpstream(path, i + 1)

\* The content-type a Response built from a string body gets when its
\* headers name none.
TextPlain == "text/plain;charset=UTF-8"

\* Lines 141-152: the redirect of an http: request.
Redirect(proxyURL) ==
    [status  |-> 301,
     headers |-> [n \in {"strict-transport-security", "location", "content-type"} |->
                    IF n = "location" THEN Href(SetProtocol(proxyURL, "https:"))
                    ELSE IF n = "content-type" THEN TextPlain
                    ELSE "max-age=31536000; includeSubDomains; preload"],
     body    |-> "http not allowed"]

\* Line 162
BadRequest ==
    [status  |-> 400,
     headers |-> [n \in {"content-type"} |-> TextPlain],
     body    |-> "What is that URL?"]

\* fetch() with the redirect tested after the upstream has been parsed.
fetchRedirectLast(req) ==
    LET proxyURL == ParseURL(req.url)
        path     == Drop(Href(proxyURL), Len(Origin(proxyURL)))
        upstream == ExtractUpstream(path, 1)
    IN  IF ParseURL(upstream).ok
        THEN [proxied |-> TRUE, parsed |-> 1, upstream |-> upstream,
              upstreamURL |-> ParseURL(upstream), response |-> NoResponse]
        ELSE IF proxyURL.protocol = "http:"
        THEN [proxied |-> FALSE, parsed |-> 1, upstream |-> "",
              upstreamURL |-> NoURL, response |-> Redirect(proxyURL)]
        ELSE [proxied |-> FALSE, parsed |-> 1, upstream |-> upstream,
              upstreamURL |-> NoURL, response |-> BadRequest]

\* fetch(request) until it returns a Response or calls proxy(request,
\* upstreamURL): parsed counts the calls of new URL(upstream).
fetch(req) ==
    LET proxyURL == ParseURL(req.url)
        path     == Drop(Href(proxyURL), Len(Origin(proxyURL)))
        upstream == ExtractUpstream(path, 1)
    IN  IF proxyURL.protocol = "http:"
        THEN [proxied |-> FALSE, parsed |-> 0, upstream |-> "",
              upstreamURL |-> NoURL, response |-> Redirect(proxyURL)]
        ELSE IF ParseURL(upstream).ok
        THEN [proxied |-> TRUE, parsed |-> 1, upstream |-> upstream,
              upstreamURL |-> ParseURL(upstream), response |-> NoResponse]
        ELSE [proxied |-> FALSE, parsed |-> 1, upstream |-> upstream,
              upstreamURL |-> NoURL, response |-> BadRequest]

----------------------------------------------------------------------------
(* proxy(request, upstreamURL) *)

\* Line 97: const rewriteURLs = rewrite(proxyURL, upstreamURL)
rewriteURLs(proxyURL, upstreamURL, text) == rewrite(proxyURL, upstreamURL, text)

\* Lines 76-84: the upstream fetch that proxy() starts.
UpstreamRequest(req, upstreamURL) ==
    [url     |-> Href(upstreamURL),
     method  |-> req.method,
     headers |-> SetHeader(SetHeader(req.headers, "host", Origin(upstreamURL)),
                           "referer", Origin(ParseURL(req.url)))]

\* Lines 87-101: the modified copy of the upstream response's headers.
ResponseHeaders(req, upstreamURL, upstreamResponse) ==
    LET proxyURL == ParseURL(req.url)
        ip == GetHeader(req.headers, "cf-connecting-ip")
        h1 == SetHeader(upstreamResponse.headers, "access-control-allow-origin", "*")
        h2 == SetHeader(h1, "access-control-allow-credentials", "true")
        h3 == DeleteHeader(h2, "content-security-policy")
        h4 == DeleteHeader(h3, "content-security-policy-report-only")
        h5 == DeleteHeader(h4, "clear-site-data")
        h6 == SetHeader(h5, "x-forwarded-host", Origin(proxyURL))
        h7 == SetHeader(h6, "x-forwarded-proto", proxyURL.protocol)
        h8 == SetHeader(h7, "x-forwarded-for", IF ip.absent THEN "" ELSE ip.value)
    IN  IF HasHeader(h8, "link")
        THEN SetHeader(h8, "link", rewriteURLs(proxyURL, upstreamURL, h8["link"]))
        ELSE h8

\* Lines 102-133: which way proxy() answers.
Branch(upstreamResponse) ==
    LET contentType == GetHeader(upstreamResponse.headers, "content-type")
    IN  IF contentType.absent THEN "passthrough"
        ELSE IF Includes(contentType.value, "text/html") THEN "html"
        ELSE IF \/ StartsWith(contentType.value, "text/")
                \/ StartsWith(contentType.value, "application/x-javascript")
                \/ StartsWith(contentType.value, "application/javascript")
        THEN "text"
        ELSE "passthrough"

\* Lines 113-120: the Response of the HTML branch; its body is the upstream
\* body as the HTMLRewriter transforms it while it streams.
HtmlResponse(req, upstreamURL, upstreamResponse) ==
    [status  |-> upstreamResponse.status,
     headers |-> ResponseHeaders(req, upstreamURL, upstreamResponse),
     body    |-> upstreamResponse.body]

\* Lines 127-129: new Response(body_, upstreamResponse) takes status and
\* headers of upstreamResponse.
TextResponse(req, upstreamURL, upstreamResponse) ==
    [status  |-> upstreamResponse.status,
     headers |-> upstreamResponse.headers,
     body    |-> rewriteURLs(ParseURL(req.url), upstreamURL, upstreamResponse.body)]

\* Line 132
PassthroughResponse(upstreamResponse) == upstreamResponse

----------------------------------------------------------------------------
(* AttributeRewriter *)

WordChars == "abcdefghijklmnopqrstuvwxyzABCDEFGHIJKLMNOPQRSTUVWXYZ0123456789_"

\* Every character of s is one of \w or "-".
RECURSIVE IsWordOrHyphen(_)
IsWordOrHyphen(s) ==
    \/ s = ""
    \/ /\ Includes(WordChars, SubSeq(s, 1, 1)) \/ SubSeq(s, 1, 1) = "-"
       /\ IsWordOrHyphen(Drop(s, 1))

\* attribute.match(/^[\w-]+:\/\/.*/)
MatchesSchemeSlashes(s) ==
    LET i == IndexOf(s, "://", 1)
    IN  i > 1 /\ IsWordOrHyphen(SubSeq(s, 1, i - 1))

\* new URL(attribute, base).href for a base that is an origin: attribute is a
\* scheme-relative ("//host/path"), root-relative ("/path") or path-relative
\* reference; ok is FALSE when the constructor throws.
ResolveURL(attribute, base) ==
    LET baseURL == ParseURL(base)
        url == IF StartsWith(attribute, "//") THEN ParseURL(baseURL.protocol \o attribute)
               ELSE IF StartsWith(attribute, "/") THEN ParseURL(base \o attribute)
               ELSE ParseURL(base \o "/" \o attribute)
    IN  [ok |-> url.ok, href |-> IF url.ok THEN Href(url) ELSE ""]

\* AttributeRewriter.element (lines 26-37) on an element whose configured
\* attribute is `attribute` (absent: getAttribute returned null): whether
\* the handler threw, whether it called setAttribute, and with which value.
AttributeRewriter_element(attribute, proxy, upstream) ==
    LET resolve  == /\ ~MatchesSchemeSlashes(attribute.value)
                    /\ ~StartsWith(attribute.value, "data:")
        resolved == ResolveURL(attribute.value, Origin(upstream))
        absolute == IF resolve THEN resolved.href ELSE attribute.value
    IN  IF attribute.absent \/ attribute.value = ""
        THEN [threw |-> FALSE, set |-> FALSE, value |-> ""]
        ELSE IF resolve /\ ~resolved.ok
        THEN [threw |-> TRUE, set |-> FALSE, value |-> ""]
        ELSE [threw |-> FALSE, set |-> TRUE,
              value |-> IF StartsWith(absolute, "http://") \/ StartsWith(absolute, "https://")
                        THEN Origin(proxy) \o "/" \o absolute
                        ELSE absolute]

----------------------------------------------------------------------------
(* TextRewriter *)

\* TextRewriter.text rewriting each chunk as it comes, without the buffer.
TextRewriter_textPerChunk(buf, proxyURL, upstreamURL, text) ==
    [buffer |-> buf,
     op     |-> [kind |-> "replace",
                 content |-> rewriteURLs(proxyURL, upstreamURL, text.text)]]

\* TextRewriter.text (lines 4-13) of the rewriter proxy() builds with
\* rewriteURLs: the buffer it leaves and what it does to the chunk.
TextRewriter_text(buf, proxyURL, upstreamURL, text) ==
    LET appended == buf \o text.text
    IN  IF text.lastInTextNode
        THEN [buffer |-> "",
              op     |-> [kind |-> "replace",
                          content |-> rewriteURLs(proxyURL, upstreamURL, appended)]]
        ELSE [buffer |-> appended, op |-> [kind |-> "remove", content |-> ""]]

----------------------------------------------------------------------------
(* Bounds and inputs *)

\* Requests the worker handles concurrently.
NumRequests == 2

\* Text chunk events delivered in one run, over all responses.
MaxChunks == 2

\* Elements with a rewritten attribute delivered in one run, over all
\* responses.
MaxElements == 1

Requests == 1..NumRequests

\* The two text handlers of lines 110-111.
Trackers == {"script", "style"}

NoRequest == [url |-> "", method |-> "", headers |-> NoHeaders]

\* Requests a client types: plain http (with and without an upstream in the
\* path, and on the port that is the default of https), a proxied page, a
\* path without an upstream, and an upstream that is no URL.
BaseRequests ==
    {[url |-> "http://proxy.test/https://example.com/", method |-> "GET",
      headers |-> NoHeaders],
     [url |-> "http://proxy.test:8080/nothing", method |-> "GET",
      headers |-> NoHeaders],
     [url |-> "http://proxy.test:443/x", method |-> "GET",
      headers |-> NoHeaders],
     [url |-> "https://proxy.test/https://example.com/", method |-> "GET",
      headers |-> [n \in {"cf-connecting-ip"} |-> "203.0.113.7"]],
     [url |-> "https://proxy.test/favicon.ico", method |-> "GET",
      headers |-> NoHeaders],
     [url |-> "https://proxy.test/https://", method |-> "GET",
      headers |-> NoHeaders]}

\* The request of the document whose inline scripts and styles are streamed.
DocumentRequests ==
    {[url |-> "https://proxy.test/https://example.com/", method |-> "GET",
      headers |-> NoHeaders]}

HtmlDocument ==
    [status  |-> 200,
     headers |-> [n \in {"content-type", "content-security-policy", "link"} |->
                    IF n = "content-type" THEN "text/html; charset=utf-8"
                    ELSE IF n = "link" THEN "</style.css>; rel=preload"
                    ELSE "default-src 'self'"],
     body    |-> "<script>fetch('/api')</script>"]

StyleSheet ==
    [status  |-> 200,
     headers |-> [n \in {"content-type", "clear-site-data", "link"} |->
                    IF n = "content-type" THEN "text/css"
                    ELSE IF n = "link" THEN "</font.woff>; rel=preload"
                    ELSE "\"cache\""],
     body    |-> "body{background:url('/bg.png')}"]

Image ==
    [status  |-> 404,
     headers |-> [n \in {"content-type", "content-security-policy-report-only"} |->
                    IF n = "content-type" THEN "image/png" ELSE "default-src 'none'"],
     body    |-> "PNG"]

Untyped == [status |-> 200, headers |-> NoHeaders, body |-> "bytes"]

UpstreamResponses == {HtmlDocument, StyleSheet, Image, Untyped}

NoAttribute == [absent |-> TRUE, value |-> ""]

\* Values of the rewritten attribute in the upstream document.
AttributeValues ==
    {NoAttribute} \cup
    {[absent |-> FALSE, value |-> v] :
        v \in {"", "/logo.png", "//", "https://example.com/page",
               "http://example.com/a/../b", "data:,x"}}

\* Chunks of an inline script as the tokenizer may cut it.
ChunkTexts == {"fetch('/", "api')"}

\* Fragments a text handed to rewrite() is put together from.
MaxFrags == 2

\* (originURL, publicURL): an upstream published at a proxy; the pair as
\* proxy() passes it (line 97); a public host that contains the origin's
\* host name; an origin with a port.
OriginPairs ==
    {<<"https://example.com/", "https://proxy.test/">>,
     <<"https://proxy.test/https://example.com/", "https://example.com/">>,
     <<"https://a.co/", "https://b.a.co/">>,
     <<"http://a.co:8080/", "https://p.t/">>}

\* The relative-URL markers, the four forms of the origin, and other text.
Fragments(originURL) ==
    {"'/", "\"/", "</", "/x", " ",
     Origin(originURL),
     replaceAll(Origin(originURL), "/", "\\/"),
     "//" \o HostPort(originURL) \o "/",
     originURL.hostname}

RECURSIVE TextsOf(_, _)
TextsOf(frags, n) ==
    IF n = 0 THEN {""}
    ELSE LET shorter == TextsOf(frags, n - 1)
         IN  shorter \cup {t \o f : t \in shorter, f \in frags}

----------------------------------------------------------------------------
(* State *)

VARIABLES
    pc,          \* per request: waiting, fetching, buffering, responded, failed
    request,     \* per request: the Request the handler was called with
    followed,    \* per request: the rewritten attribute the client followed
    target,      \* per request: upstreamURL, once parsed
    parsed,      \* per request: calls of new URL(upstream)
    fetches,     \* per request: the upstream fetches started, in order
    received,    \* per request: upstreamResponse
    response,    \* per request: the Response the handler returned
    stream,      \* per request: the HTMLRewriter transform of the body
    buffer,      \* per TextRewriter instance: its buffer
    node,        \* per request and tracker: the chunks of the current text node
    chunkCount,  \* chunk events so far
    elementCount,\* element events so far
    rw           \* an application of rewrite() on its own

vars == <<pc, request, followed, target, parsed, fetches, received, response,
          stream, buffer, node, chunkCount, elementCount, rw>>

NoLink == [link |-> FALSE, attribute |-> "", collapsed |-> FALSE]

NoElement == [seen |-> FALSE, attribute |-> NoAttribute, set |-> FALSE, value |-> ""]

NoStream == [state |-> "none", element |-> NoElement]

NoNode == [chunks |-> <<>>, ended |-> FALSE, ops |-> <<>>]

NoRewrite == [originURL |-> NoURL, publicURL |-> NoURL, text |-> "",
              applied |-> FALSE, out |-> ""]

\* One TextRewriter instance registered for both "script" and "style".
BufferOfShared(r, t) == <<r, "script">>

\* Lines 110-111: each call of proxy() builds one TextRewriter, with its own
\* buffer, for "script" and one for "style".
BufferOf(r, t) == <<r, t>>

Init ==
    /\ pc = [r \in Requests |-> "waiting"]
    /\ request = [r \in Requests |-> NoRequest]
    /\ followed = [r \in Requests |-> NoLink]
    /\ target = [r \in Requests |-> NoURL]
    /\ parsed = [r \in Requests |-> 0]
    /\ fetches = [r \in Requests |-> <<>>]
    /\ received = [r \in Requests |-> NoResponse]
    /\ response = [r \in Requests |-> NoResponse]
    /\ stream = [r \in Requests |-> NoStream]
    /\ buffer = [k \in Requests \X Trackers |-> ""]
    /\ node = [k \in Requests \X Trackers |-> NoNode]
    /\ chunkCount = 0
    /\ elementCount = 0
    /\ rw = NoRewrite

----------------------------------------------------------------------------
(* Actions *)

\* fetch(request) runs to its return: a Response (301 or 400), or the
\* promise of proxy(), which has started the upstream fetch (line 81).
Handled(r, req, link, out) ==
    /\ pc[r] = "waiting"
    /\ request' = [request EXCEPT ![r] = req]
    /\ followed' = [followed EXCEPT ![r] = link]
    /\ parsed' = [parsed EXCEPT ![r] = out.parsed]
    /\ target' = [target EXCEPT ![r] = out.upstreamURL]
    /\ pc' = [pc EXCEPT ![r] = IF out.proxied THEN "fetching" ELSE "responded"]
    /\ fetches' = [fetches EXCEPT ![r] =
                     IF out.proxied
                     THEN Append(@, UpstreamRequest(req, out.upstreamURL))
                     ELSE @]
    /\ response' = [response EXCEPT ![r] = out.response]
    /\ UNCHANGED <<received, stream, buffer, node, chunkCount, elementCount, rw>>

Handle(r, req, link) == Handled(r, req, link, fetch(req))

Receive(r) == \E req \in BaseRequests : Handle(r, req, NoLink)

ReceiveDocument(r) == \E req \in DocumentRequests : Handle(r, req, NoLink)

\* The "//" after the scheme of the embedded URL collapsed to "/".
Collapse(url, proxyOrigin) ==
    LET embedded == Drop(url, Len(proxyOrigin) + 1)
        i == IndexOf(embedded, "://", 1)
    IN  proxyOrigin \o "/" \o SubSeq(embedded, 1, i) \o Drop(embedded, i + 1)

\* A client follows an attribute that the stream of request s rewrote.
Navigate(r) ==
    \E s \in Requests, collapsed \in BOOLEAN :
        LET written == stream[s].element.value
            proxyOrigin == Origin(ParseURL(request[s].url))
        IN  /\ pc[r] = "waiting"
            /\ stream[s].element.set
            /\ StartsWith(written, proxyOrigin \o "/http")
            /\ Handle(r,
                      [url |-> IF collapsed THEN Collapse(written, proxyOrigin)
                               ELSE written,
                       method |-> "GET", headers |-> NoHeaders],
                      [link |-> TRUE,
                       attribute |-> stream[s].element.attribute.value,
                       collapsed |-> collapsed])

\* The rejection caught by fetch()'s try block, as `return await proxy(...)`
\* would have it.
UpstreamFailsCaught(r) ==
    /\ pc[r] \in {"fetching", "buffering"}
    /\ pc' = [pc EXCEPT ![r] = "responded"]
    /\ response' = [response EXCEPT ![r] = BadRequest]
    /\ UNCHANGED <<request, followed, target, parsed, fetches, received,
                   stream, buffer, node, chunkCount, elementCount, rw>>

\* The upstream fetch (line 81) or the body read (line 127) rejects: proxy()'s
\* promise rejects, and fetch(), which returned that promise without
\* awaiting it inside its try block, rejects with it.
UpstreamFails(r) ==
    /\ pc[r] \in {"fetching", "buffering"}
    /\ pc' = [pc EXCEPT ![r] = "failed"]
    /\ UNCHANGED <<request, followed, target, parsed, fetches, received,
                   response, stream, buffer, node, chunkCount, elementCount, rw>>

\* The upstream fetch resolves: lines 86-133 up to the next await.
Respond(r, upstreamResponse) ==
    LET branch == Branch(upstreamResponse)
    IN  /\ pc[r] = "fetching"
        /\ received' = [received EXCEPT ![r] = upstreamResponse]
        /\ pc' = [pc EXCEPT ![r] = IF branch = "text" THEN "buffering" ELSE "responded"]
        /\ response' = [response EXCEPT ![r] =
                          IF branch = "html"
                          THEN HtmlResponse(request[r], target[r], upstreamResponse)
                          ELSE IF branch = "text" THEN @
                          ELSE PassthroughResponse(upstreamResponse)]
        /\ stream' = [stream EXCEPT ![r] =
                        IF branch = "html"
                        THEN [state |-> "open", element |-> NoElement]
                        ELSE @]
        /\ buffer' = [k \in DOMAIN buffer |->
                        IF branch = "html" /\ k \in {BufferOf(r, t) : t \in Trackers}
                        THEN "" ELSE buffer[k]]
        /\ UNCHANGED <<request, followed, target, parsed, fetches, node,
                       chunkCount, elementCount, rw>>

UpstreamResponds(r) == \E upstreamResponse \in UpstreamResponses : Respond(r, upstreamResponse)

DocumentArrives(r) == Respond(r, HtmlDocument)

\* await upstreamResponse.text() resolves: lines 128-129.
BodyBuffered(r) ==
    /\ pc[r] = "buffering"
    /\ pc' = [pc EXCEPT ![r] = "responded"]
    /\ response' = [response EXCEPT ![r] = TextResponse(request[r], target[r], received[r])]
    /\ UNCHANGED <<request, followed, target, parsed, fetches, received,
                   stream, buffer, node, chunkCount, elementCount, rw>>

\* The tokenizer reaches an element one of the six AttributeRewriters of
\* lines 104-109 is registered for; a handler that throws errors the stream.
ElementEvent(r) ==
    \E attribute \in AttributeValues :
        LET done == AttributeRewriter_element(attribute, ParseURL(request[r].url), target[r])
        IN  /\ pc[r] = "responded"
            /\ stream[r].state = "open"
            /\ elementCount < MaxElements
            /\ elementCount' = elementCount + 1
            /\ stream' = [stream EXCEPT ![r] =
                            [state   |-> IF done.threw THEN "errored" ELSE "open",
                             element |-> [seen |-> TRUE, attribute |-> attribute,
                                          set |-> done.set, value |-> done.value]]]
            /\ UNCHANGED <<pc, request, followed, target, parsed, fetches,
                           received, response, buffer, node, chunkCount, rw>>

\* The tokenizer delivers a chunk of a script or style body to its TextRewriter.
TextEvent(r, t) ==
    \E chunk \in ChunkTexts, last \in BOOLEAN :
        LET done == TextRewriter_text(buffer[BufferOf(r, t)], ParseURL(request[r].url),
                                      target[r],
                                      [text |-> chunk, lastInTextNode |-> last])
        IN  /\ pc[r] = "responded"
            /\ stream[r].state = "open"
            /\ chunkCount < MaxChunks
            /\ chunkCount' = chunkCount + 1
            /\ buffer' = [buffer EXCEPT ![BufferOf(r, t)] = done.buffer]
            /\ node' = [node EXCEPT ![<<r, t>>] =
                          [chunks |-> IF @.ended THEN <<chunk>> ELSE Append(@.chunks, chunk),
                           ended  |-> last,
                           ops    |-> IF @.ended THEN <<done.op>> ELSE Append(@.ops, done.op)]]
            /\ UNCHANGED <<pc, request, followed, target, parsed, fetches,
                           received, response, stream, elementCount, rw>>

\* rewrite(originURL, publicURL) is applied to a text.
ApplyRewrite ==
    /\ ~rw.applied
    /\ rw' = [rw EXCEPT !.applied = TRUE,
                        !.out = rewrite(rw.originURL, rw.publicURL, rw.text)]
    /\ UNCHANGED <<pc, request, followed, target, parsed, fetches, received,
                   response, stream, buffer, node, chunkCount, elementCount>>

----------------------------------------------------------------------------
(* Specifications *)

\* Request handling: routing, the upstream fetch and the three ways of
\* answering.
Next ==
    \E r \in Requests :
        \/ Receive(r)
        \/ UpstreamResponds(r)
        \/ UpstreamFails(r)
        \/ BodyBuffered(r)

Spec == Init /\ [][Next]_vars

\* Attribute rewriting in streamed documents, and the requests of clients
\* that follow the rewritten attributes.
NextLinks ==
    \E r \in Requests :
        \/ ReceiveDocument(r)
        \/ Navigate(r)
        \/ DocumentArrives(r)
        \/ UpstreamFails(r)
        \/ ElementEvent(r)

SpecLinks == Init /\ [][NextLinks]_vars

\* Text-node streaming: documents with inline scripts and styles, their
\* chunks delivered in any interleaving.
NextStream ==
    \E r \in Requests :
        \/ ReceiveDocument(r)
        \/ DocumentArrives(r)
        \/ UpstreamFails(r)
        \/ \E t \in Trackers : TextEvent(r, t)

SpecStream == Init /\ [][NextStream]_vars

\* rewrite() on its own, over origin pairs and texts.
InitRewrite ==
    /\ pc = [r \in Requests |-> "waiting"]
    /\ request = [r \in Requests |-> NoRequest]
    /\ followed = [r \in Requests |-> NoLink]
    /\ target = [r \in Requests |-> NoURL]
    /\ parsed = [r \in Requests |-> 0]
    /\ fetches = [r \in Requests |-> <<>>]
    /\ received = [r \in Requests |-> NoResponse]
    /\ response = [r \in Requests |-> NoResponse]
    /\ stream = [r \in Requests |-> NoStream]
    /\ buffer = [k \in Requests \X Trackers |-> ""]
    /\ node = [k \in Requests \X Trackers |-> NoNode]
    /\ chunkCount = 0
    /\ elementCount = 0
    /\ \E pair \in OriginPairs :
          \E text \in TextsOf(Fragments(ParseURL(pair[1])), MaxFrags) :
              rw = [originURL |-> ParseURL(pair[1]), publicURL |-> ParseURL(pair[2]),
                    text |-> text, applied |-> FALSE, out |-> ""]

NextRewrite == ApplyRewrite

SpecRewrite == InitRewrite /\ [][NextRewrite]_vars

----------------------------------------------------------------------------
(* Properties *)

RECURSIVE Concat(_)
Concat(chunks) == IF chunks = <<>> THEN "" ELSE Head(chunks) \o Concat(Tail(chunks))

ProxyURL(r) == ParseURL(request[r].url)

IsHttpURL(u) == StartsWith(u, "http://") \/ StartsWith(u, "https://")

\* C1: for every text node delivered to one TextRewriter as n >= 1 chunks of
\* which only the last has lastInTextNode set, every chunk but the last is
\* removed, and the last is replaced, once, by the rewrite function applied
\* to the concatenation of the n chunk texts in delivery order.
C1_OneReplacePerNode ==
    \A r \in Requests, t \in Trackers :
        LET n == node[<<r, t>>]
        IN  /\ Len(n.ops) = Len(n.chunks)
            /\ \A i \in 1..Len(n.ops) :
                  IF i = Len(n.ops) /\ n.ended
                  THEN n.ops[i] = [kind |-> "replace",
                                   content |-> rewrite(ProxyURL(r), target[r],
                                                       Concat(n.chunks))]
                  ELSE n.ops[i] = [kind |-> "remove", content |-> ""]

\* A text node of two chunks has been flushed.
C1_Witness ==
    \E r \in Requests, t \in Trackers :
        /\ node[<<r, t>>].ended
        /\ Len(node[<<r, t>>].chunks) = 2
        /\ node[<<r, t>>].ops[2].kind = "replace"

\* The header contract of the spec on the headers of a response.
ModifiedHeaders(r) ==
    LET h == response[r].headers
    IN  /\ HasHeader(h, "access-control-allow-origin")
        /\ h["access-control-allow-origin"] = "*"
        /\ HasHeader(h, "access-control-allow-credentials")
        /\ h["access-control-allow-credentials"] = "true"
        /\ ~HasHeader(h, "content-security-policy")
        /\ ~HasHeader(h, "content-security-policy-report-only")
        /\ ~HasHeader(h, "clear-site-data")
        /\ HasHeader(h, "x-forwarded-host")
        /\ HasHeader(h, "x-forwarded-proto")
        /\ HasHeader(h, "x-forwarded-for")
        /\ HasHeader(received[r].headers, "link") =>
              /\ HasHeader(h, "link")
              /\ h["link"] = rewrite(ProxyURL(r), target[r], received[r].headers["link"])

\* C2: every response returned by proxy(), whichever content-type branch is
\* taken, carries the modified header set.
C2_EveryBranchModifiedHeaders ==
    \A r \in Requests :
        (pc[r] = "responded" /\ target[r].ok) => ModifiedHeaders(r)

\* C3: for the proxy origin P = https://proxy.test and the upstream
\* https://example.com, the link header "</style.css>; rel=preload" is
\* answered as "<P/style.css>; rel=preload", and the script body delivered as
\* the chunks "fetch('/" and "api')" is flushed once, as fetch('P/api').
C3_RootRelativeAnchoredAtProxy ==
    \A r \in Requests :
        (pc[r] = "responded" /\ target[r].ok) =>
            /\ (/\ HasHeader(received[r].headers, "link")
                /\ received[r].headers["link"] = "</style.css>; rel=preload")
                => response[r].headers["link"]
                       = "<" \o Origin(ProxyURL(r)) \o "/style.css>; rel=preload"
            /\ \A t \in Trackers :
                  (node[<<r, t>>].ended /\ node[<<r, t>>].chunks = <<"fetch('/", "api')">>)
                  => node[<<r, t>>].ops =
                       <<[kind |-> "remove", content |-> ""],
                         [kind |-> "replace",
                          content |-> "fetch('" \o Origin(ProxyURL(r)) \o "/api')"]>>

\* The text holds none of the forms of the origin: scheme://host[:port], its
\* escaped-slash form, its protocol-relative form, its bare host name.
NoOriginSubstring(originURL, text) ==
    /\ ~Includes(text, Origin(originURL))
    /\ ~Includes(text, replaceAll(Origin(originURL), "/", "\\/"))
    /\ ~Includes(text, "//" \o HostPort(originURL))
    /\ ~Includes(text, originURL.hostname)

NoRelativeMarker(text) ==
    ~Includes(text, "'/") /\ ~Includes(text, "\"/") /\ ~Includes(text, "</")

\* C4, as claimed: a text that contains no substring of the origin comes
\* back from rewrite() unchanged.
C4_IdentityWithoutOrigin ==
    (rw.applied /\ NoOriginSubstring(rw.originURL, rw.text)) => rw.out = rw.text

\* C4, amended: a text that contains no substring of the origin and none of
\* the relative-URL markers '/, "/ and </ comes back from rewrite() unchanged.
C4_IdentityWithoutOriginAndMarkers ==
    (/\ rw.applied
     /\ NoOriginSubstring(rw.originURL, rw.text)
     /\ NoRelativeMarker(rw.text))
    => rw.out = rw.text

\* rewrite() has run on a text with slashes in it that it must leave alone.
C4_Witness ==
    /\ rw.applied
    /\ NoOriginSubstring(rw.originURL, rw.text)
    /\ NoRelativeMarker(rw.text)
    /\ Includes(rw.text, "/x")
    /\ rw.out = rw.text

\* C5: a text that embeds an absolute URL of the origin comes back with the
\* same URL at the public origin, the public origin as written not altered
\* by a later rule, and without the origin string.
C5_AbsoluteURLMovedToPublicOrigin ==
    (rw.applied /\ Includes(rw.text, Origin(rw.originURL) \o "/x")) =>
        /\ Includes(rw.out, Origin(rw.publicURL) \o "/x")
        /\ ~Includes(rw.out, Origin(rw.originURL))

\* C6: an http: request is answered 301 with the HSTS header and the same
\* URL under https: as its location, and nothing of the proxying happens: no
\* upstream is parsed and no upstream fetch is started.
C6_HttpRedirectedBeforeProxying ==
    \A r \in Requests :
        (pc[r] # "waiting" /\ StartsWith(request[r].url, "http://")) =>
            /\ pc[r] = "responded"
            /\ response[r].status = 301
            /\ HasHeader(response[r].headers, "strict-transport-security")
            /\ HasHeader(response[r].headers, "location")
            /\ response[r].headers["strict-transport-security"]
                   = "max-age=31536000; includeSubDomains; preload"
            /\ response[r].headers["location"]
                   = Href(ParseURL("https:" \o Drop(request[r].url, 5)))
            /\ parsed[r] = 0
            /\ ~target[r].ok
            /\ fetches[r] = <<>>

\* An http: request whose path holds no upstream URL has been redirected.
C6_Witness ==
    \E r \in Requests :
        /\ request[r].url = "http://proxy.test:8080/nothing"
        /\ response[r].status = 301

\* C7: a request that is not http: is answered 400 "What is that URL?"
\* exactly when the upstream extracted from its path is no URL, and then no
\* upstream fetch is made; a failure inside proxy() leaves the handler
\* failed, without a response; the upstream fetch is started at most once.
C7_BadRequestOnlyForBadUpstream ==
    \A r \in Requests :
        (pc[r] # "waiting" /\ ~StartsWith(request[r].url, "http://")) =>
            LET path == Drop(request[r].url, Len(Origin(ProxyURL(r))))
                bad  == ~ParseURL(ExtractUpstream(path, 1)).ok
            IN  /\ bad => /\ pc[r] = "responded"
                          /\ response[r] = BadRequest
                          /\ fetches[r] = <<>>
                /\ ~bad => /\ ~(/\ response[r].status = 400
                                /\ response[r].body = "What is that URL?")
                           /\ Len(fetches[r]) = 1
                /\ pc[r] = "failed" => response[r] = NoResponse

\* One request has been answered 400 and the upstream fetch of another has
\* failed.
C7_Witness ==
    \E r, q \in Requests :
        /\ pc[r] = "responded" /\ response[r] = BadRequest
        /\ pc[q] = "failed" /\ Len(fetches[q]) = 1

\* C8: AttributeRewriter.element never fails: an absent or empty attribute
\* gets no setAttribute, and an attribute that does not resolve to a URL
\* keeps its value, the stream going on.
C8_ElementNeverFails ==
    \A r \in Requests :
        /\ stream[r].state # "errored"
        /\ (/\ stream[r].element.seen
            /\ stream[r].element.attribute.absent \/ stream[r].element.attribute.value = "")
           => ~stream[r].element.set

\* What C9 says of an attribute value u, and of the request that follows it.
RoundTrip(covered(_)) ==
    /\ \A s \in Requests :
          (stream[s].element.seen /\ covered(stream[s].element.attribute.value)) =>
              /\ stream[s].element.set
              /\ stream[s].element.value
                     = Origin(ProxyURL(s)) \o "/" \o stream[s].element.attribute.value
    /\ \A r \in Requests :
          (followed[r].link /\ covered(followed[r].attribute)) =>
              fetch(request[r]).upstream = followed[r].attribute

\* u is the serialization of an http(s) URL: parsing it changes nothing.
IsSerializedHttpURL(u) == IsHttpURL(u) /\ ParseURL(u).ok /\ Href(ParseURL(u)) = u

\* C9, as claimed: for every attribute value u that is an absolute http://
\* or https:// URL, AttributeRewriter writes proxyOrigin + "/" + u, and the
\* router extracts exactly u from the request of that value, also with the
\* "//" after the scheme collapsed.
C9_RoundTripEveryURL == RoundTrip(IsHttpURL)

\* C9, amended: the same for every u that is an http(s) URL in serialized
\* form (no dot segments: the URL parser leaves it unchanged).
C9_RoundTripSerializedURL == RoundTrip(IsSerializedHttpURL)

\* A client has followed a rewritten absolute URL with "//" collapsed.
C9_Witness ==
    \E r \in Requests :
        /\ followed[r].link
        /\ followed[r].collapsed
        /\ followed[r].attribute = "https://example.com/page"
        /\ target[r].ok

\* C10: in every interleaving, the buffer of each TextRewriter holds the
\* chunks of the unfinished text node of its own request and tracker, in
\* order, and nothing else; it is empty when a node begins; and what is
\* flushed for a node is made of the chunks of that node only.
C10_BuffersHoldOwnNodeOnly ==
    \A r \in Requests, t \in Trackers :
        LET n == node[<<r, t>>]
        IN  /\ buffer[BufferOf(r, t)] = IF n.ended THEN "" ELSE Concat(n.chunks)
            /\ n.ended =>
                  n.ops[Len(n.ops)].content
                      = rewrite(ProxyURL(r), target[r], Concat(n.chunks))

\* Script and style nodes of two requests are in flight at once.
C10_Witness ==
    \E r, q \in Requests :
        /\ r # q
        /\ buffer[BufferOf(r, "script")] = "fetch('/"
        /\ buffer[BufferOf(q, "style")] = "api')"

====
